---- MODULE Spec2Model ----
(***************************************************************************)
(* Brickfront: a client (gateway) for the Brickset web API and the Build   *)
(* record it decodes, with its three lazily fetched collections.           *)
(*                                                                         *)
(* Python strings are sequences of one-character strings, so that lower(), *)
(* startswith(), split() and slicing are computed and not assumed.         *)
(* Python values are tagged records: None, str, bool, int, float, list.    *)
(*                                                                         *)
(* client.py binds its exception classes by `from .errors import X as _X`. *)
(* Two of the imported names are not defined by errors.py, so the binding  *)
(* fails with ImportError.  The model surfaces that failure at the place   *)
(* the bound name is used (operator Exc), which keeps the handlers that do *)
(* not use those names observable.                                         *)
(***************************************************************************)
EXTENDS Integers, Sequences, FiniteSets, TLC

VARIABLES constructed, apiKey, userHash, ret, loginLog,
          hasBuild, attrs, cache, fetches

vars == <<constructed, apiKey, userHash, ret, loginLog,
          hasBuild, attrs, cache, fetches>>

-----------------------------------------------------------------------------
(* Bounds of the model *)

MaxChildren == 2

-----------------------------------------------------------------------------
(* Python values *)

PyNone == [t |-> "None"]

PyStr(s) == [t |-> "str", v |-> s]

PyBool(b) == [t |-> "bool", v |-> b]

PyInt(n) == [t |-> "int", v |-> n]

PyList(s) == [t |-> "list", v |-> s]

IsStr(x) == x.t = "str"

IsNone(x) == x.t = "None"

-----------------------------------------------------------------------------
(* Characters and string primitives *)

UpperChars == <<"A", "B", "C", "D", "E", "F", "G", "H", "I", "J", "K", "L", "M",
                "N", "O", "P", "Q", "R", "S", "T", "U", "V", "W", "X", "Y", "Z">>

LowerChars == <<"a", "b", "c", "d", "e", "f", "g", "h", "i", "j", "k", "l", "m",
                "n", "o", "p", "q", "r", "s", "t", "u", "v", "w", "x", "y", "z">>

LowerChar(c) ==
    IF \E i \in 1..Len(UpperChars) : UpperChars[i] = c
    THEN LowerChars[CHOOSE i \in 1..Len(UpperChars) : UpperChars[i] = c]
    ELSE c

\* str.lower()
Lower(s) == [i \in 1..Len(s) |-> LowerChar(s[i])]

\* s[n:]
DropFirst(s, n) == IF n >= Len(s) THEN <<>> ELSE SubSeq(s, n + 1, Len(s))

\* s[:n]
TakeFirst(s, n) == IF n >= Len(s) THEN s ELSE SubSeq(s, 1, n)

\* s.startswith(p)
StartsWith(s, p) == Len(s) >= Len(p) /\ SubSeq(s, 1, Len(p)) = p

\* s.endswith(p)
EndsWith(s, p) == Len(s) >= Len(p) /\ SubSeq(s, Len(s) - Len(p) + 1, Len(s)) = p

\* s.split(sep)[0]
SplitFirst(s, sep) ==
    LET hits == {i \in 1..(Len(s) - Len(sep) + 1) : SubSeq(s, i, i + Len(sep) - 1) = sep}
    IN  IF hits = {} THEN s
        ELSE LET first == CHOOSE i \in hits : \A j \in hits : i <= j
             IN  SubSeq(s, 1, first - 1)

-----------------------------------------------------------------------------
(* Exceptions *)

\* The classes errors.py defines.
ErrorsModule == {"InvalidRequest", "InvalidApiKey", "InvalidLoginCredentials", "InvalidSetID"}

\* The names client.py imports from errors.py, by local alias.
ClientImports ==
    [_InvalidRequest |-> "InvalidRequest",
     _InvalidKey     |-> "InvalidKey",
     _InvalidLogin   |-> "InvalidLogin",
     _InvalidSetID   |-> "InvalidSetID"]

\* What raising the class bound to a local alias raises.
Exc(alias) ==
    IF ClientImports[alias] \in ErrorsModule THEN ClientImports[alias] ELSE "ImportError"

NoRequest == <<>>

Raise(e, m, http) ==
    [outcome |-> "raise", err |-> e, msg |-> m, val |-> PyNone, http |-> http]

Return(v, http) ==
    [outcome |-> "return", err |-> "", msg |-> <<>>, val |-> v, http |-> http]

-----------------------------------------------------------------------------
(* HTTP responses: status code, body text, and the body as ElementTree      *)
(* parses it (a root with text and child elements, or malformed).          *)

Malformed == [t |-> "malformed"]

Root(text, children) == [t |-> "root", text |-> text, children |-> children]

Leaf(tag, text) == [tag |-> tag, text |-> text]

Response(status, text, xml) == [status |-> status, text |-> text, xml |-> xml]

OkStatuses == {200, 302}

BadStatuses == {404, 500}

ErrorBodies ==
    { <<"x", "x", "4", "0", "4", "\\", "r", "z", "z">>,
      <<"E", ":", "g", "o", "n", "e">>,
      <<"!">> }

ErrorResponses == {Response(s, b, Malformed) : s \in BadStatuses, b \in ErrorBodies}

Responses(roots) ==
    ErrorResponses \cup {Response(s, <<>>, x) : s \in OkStatuses, x \in roots \cup {Malformed}}

\* Sequences over S of length 0..n
RECURSIVE SeqsUpTo(_, _)
SeqsUpTo(S, n) ==
    IF n = 0 THEN {<<>>}
    ELSE LET shorter == SeqsUpTo(S, n - 1)
         IN  shorter \cup {Append(s, x) : s \in {q \in shorter : Len(q) = n - 1}, x \in S}

\* str(request.status_code)[0]
RECURSIVE LeadingDigit(_)
LeadingDigit(n) == IF n < 10 THEN n ELSE LeadingDigit(n \div 10)

\* str(request.text).split('\\r')[0][2:] : the separator is the two characters
\* backslash and r.
ErrorText(text) == DropFirst(SplitFirst(text, <<"\\", "r">>), 2)

\* A status check that rejects server errors only.
IsOkayRequestLenient(request) ==
    IF LeadingDigit(request.status) = 5
    THEN [raises |-> TRUE, err |-> Exc("_InvalidRequest"), msg |-> ErrorText(request.text)]
    ELSE [raises |-> FALSE, err |-> "", msg |-> <<>>]

\* Client.__isOkayRequest: the exception it raises, or "" when it returns.
IsOkayRequest(request) ==
    IF LeadingDigit(request.status) \notin {2, 3}
    THEN [raises |-> TRUE, err |-> Exc("_InvalidRequest"), msg |-> ErrorText(request.text)]
    ELSE [raises |-> FALSE, err |-> "", msg |-> <<>>]

\* One GET request: the endpoint and the argument that identifies the call.
Get(endpoint, arg) == <<[endpoint |-> endpoint, arg |-> arg]>>

-----------------------------------------------------------------------------
(* Number and date parsing, as the Python built-ins used by Build do it     *)

DigitChars == <<"0", "1", "2", "3", "4", "5", "6", "7", "8", "9">>

IsDigit(c) == \E i \in 1..Len(DigitChars) : DigitChars[i] = c

DigitVal(c) == (CHOOSE i \in 1..Len(DigitChars) : DigitChars[i] = c) - 1

\* str.strip() over the whitespace of the alphabet
RECURSIVE LStrip(_)
LStrip(s) == IF s # <<>> /\ Head(s) = " " THEN LStrip(Tail(s)) ELSE s

RECURSIVE RStrip(_)
RStrip(s) == IF s # <<>> /\ s[Len(s)] = " " THEN RStrip(SubSeq(s, 1, Len(s) - 1)) ELSE s

Strip(s) == RStrip(LStrip(s))

\* Digits, with single underscores allowed between digits (PEP 515).
IsDigitGroup(s) ==
    /\ s # <<>>
    /\ IsDigit(s[1]) /\ IsDigit(s[Len(s)])
    /\ \A i \in 1..Len(s) : IsDigit(s[i]) \/ s[i] = "_"
    /\ \A i \in 1..(Len(s) - 1) : ~(s[i] = "_" /\ s[i + 1] = "_")

RECURSIVE DigitsValue(_, _)
DigitsValue(s, acc) ==
    IF s = <<>> THEN acc
    ELSE IF Head(s) = "_" THEN DigitsValue(Tail(s), acc)
    ELSE DigitsValue(Tail(s), acc * 10 + DigitVal(Head(s)))

HasSign(s) == s # <<>> /\ Head(s) \in {"+", "-"}

Unsigned(s) == IF HasSign(s) THEN Tail(s) ELSE s

SignOf(s) == IF s # <<>> /\ Head(s) = "-" THEN -1 ELSE 1

Converted(v) == [ok |-> TRUE, val |-> v, err |-> ""]

ConvRaises(e) == [ok |-> FALSE, val |-> PyNone, err |-> e]

\* int(x)
IntOf(x) ==
    IF ~IsStr(x) THEN ConvRaises("TypeError")
    ELSE LET s == Strip(x.v)
         IN  IF IsDigitGroup(Unsigned(s))
             THEN Converted(PyInt(SignOf(s) * DigitsValue(Unsigned(s), 0)))
             ELSE ConvRaises("ValueError")

\* toInt = lambda x: 0 if x is None else int(x)
ToInt(x) == IF IsNone(x) THEN Converted(PyInt(0)) ELSE IntOf(x)

PyFloat(mant, exp) == [t |-> "float", mant |-> mant, exp |-> exp]

PyFloatSpecial(kind, sign) == [t |-> "float", mant |-> kind, exp |-> sign]

\* A float is kept as mant * 10^exp with mant not divisible by 10.
RECURSIVE NormFloat(_, _)
NormFloat(mant, exp) ==
    IF mant = 0 THEN PyFloat(0, 0)
    ELSE IF mant % 10 = 0 THEN NormFloat(mant \div 10, exp + 1)
    ELSE PyFloat(mant, exp)

CountDigits(s) == Cardinality({i \in 1..Len(s) : IsDigit(s[i])})

Positions(s, c) == {i \in 1..Len(s) : s[i] = c}

\* float(x)
FloatOf(x) ==
    IF ~IsStr(x) THEN ConvRaises("TypeError")
    ELSE LET s    == Strip(x.v)
             body == Lower(Unsigned(s))
             es   == Positions(body, "e")
             epos == IF es = {} THEN Len(body) + 1 ELSE CHOOSE i \in es : TRUE
             m    == SubSeq(body, 1, epos - 1)
             ex   == SubSeq(body, epos + 1, Len(body))
             ds   == Positions(m, ".")
             dpos == IF ds = {} THEN Len(m) + 1 ELSE CHOOSE i \in ds : TRUE
             ip   == SubSeq(m, 1, dpos - 1)
             fp   == SubSeq(m, dpos + 1, Len(m))
             mOk  == /\ Cardinality(ds) <= 1
                     /\ ip # <<>> \/ fp # <<>>
                     /\ ip = <<>> \/ IsDigitGroup(ip)
                     /\ fp = <<>> \/ IsDigitGroup(fp)
             eOk  == \/ es = {}
                     \/ Cardinality(es) = 1 /\ IsDigitGroup(Unsigned(ex))
             eVal == IF es = {} THEN 0 ELSE SignOf(ex) * DigitsValue(Unsigned(ex), 0)
         IN  IF body \in {<<"i", "n", "f">>, <<"i", "n", "f", "i", "n", "i", "t", "y">>}
             THEN Converted(PyFloatSpecial("inf", SignOf(s)))
             ELSE IF body = <<"n", "a", "n">>
             THEN Converted(PyFloatSpecial("nan", 1))
             ELSE IF mOk /\ eOk
             THEN Converted(NormFloat(SignOf(s) * DigitsValue(ip \o fp, 0),
                                      eVal - CountDigits(fp)))
             ELSE ConvRaises("ValueError")

\* The days of a month, as datetime checks them.
DaysIn(year, month) ==
    IF month = 2
    THEN IF year % 4 = 0 /\ (year % 100 # 0 \/ year % 400 = 0) THEN 29 ELSE 28
    ELSE IF month \in {4, 6, 9, 11} THEN 30 ELSE 31

\* The zero-padded form of '%Y-%m-%dT%H:%M:%S.%f': YYYY-MM-DDTHH:MM:SS.f, with
\* one to six digits of fraction.  The date texts of the model are either of
\* this form or match no form strptime accepts.
DateShape == <<"d", "d", "d", "d", "-", "d", "d", "-", "d", "d", "T",
               "d", "d", ":", "d", "d", ":", "d", "d", ".">>

\* toDate = lambda x: datetime.strptime(x, '%Y-%m-%dT%H:%M:%S.%f')
ToDate(x) ==
    IF ~IsStr(x) THEN ConvRaises("TypeError")
    ELSE LET s    == x.v
             n    == Len(DateShape)
             frac == DropFirst(s, n)
             num(a, b) == DigitsValue(SubSeq(s, a, b), 0)
             shaped == /\ Len(s) > n /\ Len(frac) <= 6
                       /\ \A i \in 1..n : IF DateShape[i] = "d" THEN IsDigit(s[i])
                                                                ELSE s[i] = DateShape[i]
                       /\ \A i \in 1..Len(frac) : IsDigit(frac[i])
         IN  IF shaped /\ num(1, 4) >= 1 /\ num(6, 7) \in 1..12 /\ num(9, 10) >= 1
                /\ num(9, 10) <= DaysIn(num(1, 4), num(6, 7))
                /\ num(12, 13) <= 23 /\ num(15, 16) <= 59 /\ num(18, 19) <= 59
             THEN Converted([t |-> "datetime", year |-> num(1, 4), month |-> num(6, 7),
                             day |-> num(9, 10), hour |-> num(12, 13),
                             minute |-> num(15, 16), second |-> num(18, 19),
                             fraction |-> frac])
             ELSE ConvRaises("ValueError")

\* A toBool that does not lower its argument.
ToBoolCaseSensitive(x) ==
    IF ~IsStr(x) THEN ConvRaises("AttributeError")
    ELSE LET k == x.v
         IN  IF k = <<"t", "r", "u", "e">> THEN Converted(PyBool(TRUE))
             ELSE IF k = <<"f", "a", "l", "s", "e">> THEN Converted(PyBool(FALSE))
             ELSE IF k = <<"0">> THEN Converted(PyBool(FALSE))
             ELSE IF k = <<"1">> THEN Converted(PyBool(TRUE))
             ELSE Converted(x)

\* toBool = lambda x: {'true':True,'false':False,'0':False,'1':True}.get(x.lower(), x)
ToBool(x) ==
    IF ~IsStr(x) THEN ConvRaises("AttributeError")
    ELSE LET k == Lower(x.v)
         IN  IF k = <<"t", "r", "u", "e">> THEN Converted(PyBool(TRUE))
             ELSE IF k = <<"f", "a", "l", "s", "e">> THEN Converted(PyBool(FALSE))
             ELSE IF k = <<"0">> THEN Converted(PyBool(FALSE))
             ELSE IF k = <<"1">> THEN Converted(PyBool(TRUE))
             ELSE Converted(x)

-----------------------------------------------------------------------------
(* Build: the record and its decoding (build.py)                            *)

Plain(name) == [list |-> FALSE, xml |-> name, attr |-> name]

Renamed(xml, attr) == [list |-> TRUE, xml |-> xml, attr |-> attr]

\* applicableTags of Build.__init__
ApplicableTags ==
    << Plain("setID"), Plain("number"), Renamed("numberVariant", "variant"),
       Plain("name"), Plain("year"), Plain("theme"), Plain("themeGroup"),
       Plain("subtheme"), Plain("pieces"), Plain("minifigs"), Plain("imageURL"),
       Plain("bricksetURL"), Plain("released"), Plain("owned"), Plain("wanted"),
       Renamed("qtyOwned", "quantityOwned"), Plain("ACMDataCount"), Plain("userNotes"),
       Plain("ownedByTotal"), Plain("wantedByTotal"),
       Renamed("UKRetailPrice", "priceUK"), Renamed("USRetailPrice", "priceUS"),
       Renamed("CARetailPrice", "priceCA"), Renamed("EURetailPrice", "priceEU"),
       Renamed("USDateAddedToSAH", "dateAddedToStore"),
       Renamed("USDateRemovedFromSAH", "dateRemovedFromStore"),
       Plain("rating"), Plain("reviewCount"), Plain("packagingType"),
       Plain("availability"), Plain("instructionsCount"),
       Plain("additionalImageCount"), Plain("EAN"), Plain("UPC"),
       Plain("description"), Plain("lastUpdated") >>

\* translationTags of Build.__init__, in its order
TranslationTags ==
    << <<"setID", "int">>, <<"variant", "int">>, <<"pieces", "int">>,
       <<"minifigs", "toInt">>, <<"reviewCount", "toInt">>,
       <<"instructionsCount", "toInt">>, <<"additionalImageCount", "toInt">>,
       <<"released", "toBool">>, <<"owned", "toBool">>, <<"wanted", "toBool">>,
       <<"rating", "float">>, <<"ACMDataCount", "int">>, <<"quantityOwned", "int">>,
       <<"dateAddedToStore", "toDate">>, <<"dateRemovedFromStore", "toDate">>,
       <<"lastUpdated", "toDate">> >>

\* A tag of the response that applicableTags does not know.
OtherTags == {"extra"}

\* Every attribute name a decoded record can carry.
AttrNames ==
    {ApplicableTags[i].attr : i \in 1..Len(ApplicableTags)}
        \cup {ApplicableTags[i].xml : i \in 1..Len(ApplicableTags)}
        \cup OtherTags

\* An attribute the instance does not have.
Unset == [t |-> "unset"]

RemoveAt(s, i) == SubSeq(s, 1, i - 1) \o SubSeq(s, i + 1, Len(s))

First(S) == CHOOSE i \in S : \A j \in S : i <= j

\* One turn of the loop `for i in data` (build.py 95-111): the tags still
\* applicable and the attributes, after the leaf is stored.
StoreLeaf(st, leaf) ==
    LET tags   == st.tags
        plain  == {i \in 1..Len(tags) : ~tags[i].list /\ tags[i].attr = leaf.tag}
        listed == {i \in 1..Len(tags) : tags[i].list /\ tags[i].xml = leaf.tag}
    IN  IF plain # {}
        THEN [tags  |-> RemoveAt(tags, First(plain)),
              attrs |-> [st.attrs EXCEPT ![leaf.tag] = leaf.text]]
        ELSE IF listed # {}
        THEN [tags  |-> RemoveAt(tags, First(listed)),
              attrs |-> [st.attrs EXCEPT ![tags[First(listed)].attr] = leaf.text]]
        ELSE [tags  |-> tags,
              attrs |-> [st.attrs EXCEPT ![leaf.tag] = leaf.text]]

RECURSIVE StoreLeaves(_, _)
StoreLeaves(st, data) ==
    IF data = <<>> THEN st ELSE StoreLeaves(StoreLeaf(st, Head(data)), Tail(data))

\* build.py 113-118: the attribute of every tag still applicable is set to None.
SetMissing(a, tags) ==
    [n \in DOMAIN a |->
        IF \E i \in 1..Len(tags) : tags[i].attr = n THEN PyNone ELSE a[n]]

Convert(how, x) ==
    CASE how = "int"    -> IntOf(x)
      [] how = "toInt"  -> ToInt(x)
      [] how = "toBool" -> ToBool(x)
      [] how = "float"  -> FloatOf(x)
      [] how = "toDate" -> ToDate(x)

\* build.py 143-149: each translation is tried, and an exception leaves the
\* attribute as it was.  No attribute is translated twice, so the translations
\* do not depend on their order.
Translate(a, tr) ==
    [n \in DOMAIN a |->
        LET hits == {i \in 1..Len(tr) : tr[i][1] = n}
        IN  IF hits = {} THEN a[n]
            ELSE LET c == Convert(tr[First(hits)][2], a[n])
                 IN  IF c.ok THEN c.val ELSE a[n]]

\* The three lazily fetched collections.
LazyFields == {"additionalImages", "reviews", "instructions"}

\* Build.__init__(self, data, client): the instance's attributes and its cache.
Build__init__(data, client) ==
    LET st == StoreLeaves([tags |-> ApplicableTags, attrs |-> [n \in AttrNames |-> Unset]],
                          data)
    IN  [attrs  |-> Translate(SetMissing(st.attrs, st.tags), TranslationTags),
         client |-> client,
         cache  |-> [f \in LazyFields |-> PyNone]]

\* The positional parameters of Build.__init__ after self.
BuildParams == <<"data", "client">>

\* A call Build(*args): Python checks the arguments against the signature.
NewBuild(args) ==
    IF Len(args) # Len(BuildParams)
    THEN [outcome |-> "raise", err |-> "TypeError", obj |-> PyNone]
    ELSE [outcome |-> "return", err |-> "", obj |-> Build__init__(args[1], args[2])]

-----------------------------------------------------------------------------
(* Review (review.py)                                                       *)

\* The keys of the dict that decodes Review.HTML.
HtmlKeys ==
    { <<"t", "r", "u", "e">>, <<"f", "a", "l", "s", "e">>, <<"T", "r", "u", "e">>,
      <<"F", "a", "l", "s", "e">>, <<"1">>, <<"0">> }

HtmlTrue == { <<"t", "r", "u", "e">>, <<"T", "r", "u", "e">>, <<"1">> }

\* Review.__init__(self, data): the assignments run in the order of the
\* fields, and the first that fails raises.
Review__init__(data) ==
    LET int(i)  == IntOf(data[i].text)
        fails(i) == \/ Len(data) < i
                    \/ i \in 3..7 /\ ~int(i).ok
                    \/ i = 10 /\ ~(IsStr(data[i].text) /\ data[i].text.v \in HtmlKeys)
        bad     == {i \in 1..10 : fails(i)}
        at      == First(bad)
    IN  IF bad # {}
        THEN [outcome |-> "raise",
              err |-> IF Len(data) < at THEN "IndexError"
                      ELSE IF at = 10 THEN "KeyError" ELSE int(at).err,
              obj |-> PyNone]
        ELSE [outcome |-> "return", err |-> "",
              obj |-> [t |-> "Review",
                       author |-> data[1].text, datePosted |-> data[2].text,
                       overallRating |-> int(3).val, parts |-> int(4).val,
                       buildingExperience |-> int(5).val, playability |-> int(6).val,
                       valueForMoney |-> int(7).val, title |-> data[8].text,
                       review |-> data[9].text,
                       HTML |-> PyBool(data[10].text.v \in HtmlTrue)]]

-----------------------------------------------------------------------------
(* Client: the gateway (client.py).  self is [apiKey, userHash]; every      *)
(* operation takes the response the service gives to its one request.      *)

\* A list comprehension [make(i) for i in root]: the first exception ends it.
Comprehend(made) ==
    LET bad == {i \in 1..Len(made) : made[i].outcome = "raise"}
    IN  IF bad # {}
        THEN [outcome |-> "raise", err |-> made[First(bad)].err, val |-> PyNone]
        ELSE [outcome |-> "return", err |-> "",
              val |-> PyList([i \in 1..Len(made) |-> made[i].obj])]

\* [_Build(i, self.__userHash, self) for i in root]
BuildAll(self, root) ==
    Comprehend([i \in 1..Len(root.children) |->
                   NewBuild(<<root.children[i], self.userHash, "client">>)])

\* The shared head of every operation: the request is sent, the status is
\* checked, the body is parsed; then `body` is the rest of the operation.
Fetched(http, resp, body) ==
    LET okay == IsOkayRequest(resp)
    IN  IF okay.raises THEN Raise(okay.err, okay.msg, http)
        ELSE IF resp.xml = Malformed THEN Raise("ParseError", <<>>, http)
        ELSE IF body.outcome = "raise" THEN Raise(body.err, body.msg, http)
        ELSE Return(body.val, http)

Ok(v) == [outcome |-> "return", err |-> "", msg |-> <<>>, val |-> v]

Fail(e, m) == [outcome |-> "raise", err |-> e, msg |-> m, val |-> PyNone]

OfComprehension(c) == IF c.outcome = "raise" THEN Fail(c.err, <<>>) ELSE Ok(c.val)

\* Client.checkKey
CheckKey(self, resp) ==
    Fetched(Get("checkKey", PyStr(self.apiKey)), resp,
            Ok(PyBool(resp.xml.text = PyStr(<<"O", "K">>))))

\* 'The provided key was invalid.'
KeyMessage ==
    <<"T", "h", "e", " ", "p", "r", "o", "v", "i", "d",
       "e", "d", " ", "k", "e", "y", " ", "w", "a", "s",
       " ", "i", "n", "v", "a", "l", "i", "d", "." >>

\* Client.__init__: the call's result, and the instance when it returns.
Client__init__(key, resp) ==
    LET self  == [apiKey |-> key, userHash |-> <<>>]
        check == CheckKey(self, resp)
    IN  IF check.outcome = "raise" THEN [res |-> check, made |-> FALSE, self |-> self]
        ELSE IF ~check.val.v
        THEN [res |-> Raise(Exc("_InvalidKey"), KeyMessage, check.http),
              made |-> FALSE, self |-> self]
        ELSE [res |-> Return(PyNone, check.http), made |-> TRUE, self |-> self]

\* A login that clears the user hash when it fails.
LoginClearing(self, username, resp) ==
    LET text == resp.xml.text
        body == IF ~IsStr(text) THEN Fail("AttributeError", <<>>)
                ELSE IF StartsWith(text.v, <<"E", "R", "R", "O", "R">>)
                THEN Fail(Exc("_InvalidLogin"), DropFirst(text.v, 7))
                ELSE Ok(PyBool(TRUE))
        res  == Fetched(Get("login", PyStr(username)), resp, body)
    IN  [res  |-> res,
         hash |-> IF res.outcome = "return" THEN text.v ELSE <<>>]

\* Client.login: the call's result and the user hash it leaves.
Login(self, username, resp) ==
    LET text == resp.xml.text
        body == IF ~IsStr(text) THEN Fail("AttributeError", <<>>)
                ELSE IF StartsWith(text.v, <<"E", "R", "R", "O", "R">>)
                THEN Fail(Exc("_InvalidLogin"), DropFirst(text.v, 7))
                ELSE Ok(PyBool(TRUE))
        res  == Fetched(Get("login", PyStr(username)), resp, body)
    IN  [res  |-> res,
         hash |-> IF res.outcome = "return" THEN text.v ELSE self.userHash]

\* kwargs.get('orderBy', 'Number')
OrderByOf(kwargs) ==
    IF "orderBy" \in DOMAIN kwargs THEN kwargs.orderBy ELSE <<"N", "u", "m", "b", "e", "r">>

\* Client.getSets
GetSets(self, kwargs, resp) ==
    Fetched(Get("getSets", PyStr(OrderByOf(kwargs))), resp,
            OfComprehension(BuildAll(self, resp.xml)))

\* A lookup that takes the first record without looking at the length.
GetSetUnchecked(self, setID, resp) ==
    LET v == BuildAll(self, resp.xml)
    IN  Fetched(Get("getSet", setID), resp,
                IF v.outcome = "raise" THEN Fail(v.err, <<>>)
                ELSE IF Len(v.val.v) = 0 THEN Fail("IndexError", <<>>)
                ELSE Ok(v.val.v[1]))

\* Client.getSet
GetSet(self, setID, resp) ==
    LET v == BuildAll(self, resp.xml)
    IN  Fetched(Get("getSet", setID), resp,
                IF v.outcome = "raise" THEN Fail(v.err, <<>>)
                ELSE IF Len(v.val.v) = 0 THEN Fail(Exc("_InvalidSetID"), <<>>)
                ELSE Ok(v.val.v[1]))

\* Client.getRecentlyUpdatedSets
GetRecentlyUpdatedSets(self, minutesAgo, resp) ==
    Fetched(Get("getRecentlyUpdatedSets", PyInt(minutesAgo)), resp,
            OfComprehension(BuildAll(self, resp.xml)))

\* imageHolder[-1].text and i[0].text: the text of a child's last or first leaf.
LeafText(element, last) ==
    IF Len(element) = 0 THEN [outcome |-> "raise", err |-> "IndexError", obj |-> PyNone]
    ELSE [outcome |-> "return", err |-> "",
          obj |-> element[IF last THEN Len(element) ELSE 1].text]

\* Client.getAdditionalImages
GetAdditionalImages(self, setID, resp) ==
    Fetched(Get("getAdditionalImages", setID), resp,
            OfComprehension(Comprehend([i \in 1..Len(resp.xml.children) |->
                                           LeafText(resp.xml.children[i], TRUE)])))

\* Client.getReviews
GetReviews(self, setID, resp) ==
    Fetched(Get("getReviews", setID), resp,
            OfComprehension(Comprehend([i \in 1..Len(resp.xml.children) |->
                                           Review__init__(resp.xml.children[i])])))

\* Client.getInstructions
GetInstructions(self, setID, resp) ==
    Fetched(Get("getInstructions", setID), resp,
            OfComprehension(Comprehend([i \in 1..Len(resp.xml.children) |->
                                           LeafText(resp.xml.children[i], FALSE)])))

-----------------------------------------------------------------------------
(* Inputs                                                                   *)

ApiKeys == { <<"k", "1">> }

UserNames == { <<"u">> }

Hashes == { <<"h", "1">>, <<"h", "2">> }

KeyRoots ==
    {Root(t, <<>>) : t \in {PyStr(<<"O", "K">>), PyStr(<<"I", "N", "V", "A", "L", "I", "D">>),
                            PyStr(<<"o", "k">>), PyNone}}

LoginRoots ==
    {Root(t, <<>>) : t \in {PyStr(h) : h \in Hashes}
                            \cup {PyStr(<<"E", "R", "R", "O", "R", ":", " ", "n", "o">>),
                                  PyNone}}

SortKeys ==
    { <<"N", "u", "m", "b", "e", "r">>, <<"n", "a", "m", "e", "D", "E", "S", "C">>,
      <<"R", "A", "T", "I", "N", "G">>, <<"B", "o", "g", "u", "s">> }

Kwargs == {[query |-> <<"x">>]} \cup {[orderBy |-> o] : o \in SortKeys}

SetIDs == {PyStr(<<"7">>)}

Minutes == {5}

\* The child elements of a response that describes sets.
SetElements ==
    { <<Leaf("setID", PyStr(<<"7">>)), Leaf("released", PyStr(<<"t", "r", "u", "e">>))>>,
      <<>> }

Url == PyStr(<<"u", "r", "l">>)

\* The child elements of a response that lists images or instructions.
UrlElements == { <<Leaf("thumbnailURL", PyNone), Leaf("imageURL", Url)>>, <<>> }

ReviewElement(rating, html) ==
    << Leaf("author", PyStr(<<"a">>)), Leaf("datePosted", PyStr(<<"d">>)),
       Leaf("overallRating", rating), Leaf("parts", PyStr(<<"4">>)),
       Leaf("buildingExperience", PyStr(<<"3">>)), Leaf("playability", PyStr(<<"2">>)),
       Leaf("valueForMoney", PyStr(<<"1">>)), Leaf("title", PyNone),
       Leaf("review", PyStr(<<"r">>)), Leaf("HTML", html) >>

ReviewElements ==
    { ReviewElement(PyStr(<<"5">>), PyStr(<<"t", "r", "u", "e">>)),
      ReviewElement(PyStr(<<"5">>), PyStr(<<"T", "R", "U", "E">>)),
      <<Leaf("author", PyStr(<<"a">>))>> }

ListRoots(elements) == {Root(PyNone, c) : c \in SeqsUpTo(elements, MaxChildren)}

-----------------------------------------------------------------------------
(* State                                                                    *)

NoResponse == [t |-> "none"]

\* What the caller saw of the latest call: the operation and its argument,
\* how it ended, the requests it sent, the response it was given, and the
\* user hash before it; for a call on the record, the field, the value the
\* field held before the call, and whether the call retries a failed read.
Observed(op, arg, res, resp, before) ==
    [op |-> op, arg |-> arg, outcome |-> res.outcome, err |-> res.err, msg |-> res.msg,
     val |-> res.val, http |-> res.http, resp |-> resp, before |-> before,
     field |-> "", held |-> PyNone, retry |-> FALSE]

NoCall ==
    [op |-> "none", arg |-> PyNone, outcome |-> "none", err |-> "", msg |-> <<>>,
     val |-> PyNone, http |-> NoRequest, resp |-> NoResponse, before |-> <<>>,
     field |-> "", held |-> PyNone, retry |-> FALSE]

Self == [apiKey |-> apiKey, userHash |-> userHash]

\* The logins so far: how the latest ended, the token it returned (empty when it
\* failed or there was none), and the token the latest successful one returned.
NoLogin == [last |-> "none", token |-> <<>>, good |-> <<>>]

\* For each lazy field: how many times a read of the property fetched from the
\* gateway and stored the result (lazy), and whether a read failed with nothing
\* fetched for the field since (failed).
NoFetches == [f \in LazyFields |-> [lazy |-> 0, failed |-> FALSE]]

RecordUnchanged == UNCHANGED <<hasBuild, attrs, cache, fetches>>

Init ==
    /\ constructed = FALSE
    /\ apiKey = <<>>
    /\ userHash = <<>>
    /\ ret = NoCall
    /\ loginLog = NoLogin
    /\ hasBuild = FALSE
    /\ attrs = [n \in AttrNames |-> Unset]
    /\ cache = [f \in LazyFields |-> PyNone]
    /\ fetches = NoFetches

-----------------------------------------------------------------------------
(* The gateway's operations                                                 *)

\* Client(apiKey)
Construct ==
    /\ ~constructed
    /\ \E key \in ApiKeys, resp \in Responses(KeyRoots) :
          LET c == Client__init__(key, resp)
          IN  /\ constructed' = c.made
              /\ apiKey' = IF c.made THEN c.self.apiKey ELSE <<>>
              /\ userHash' = IF c.made THEN c.self.userHash ELSE <<>>
              /\ ret' = Observed("Client", PyStr(key), c.res, resp, <<>>)
    /\ loginLog' = NoLogin
    /\ RecordUnchanged

\* client.checkKey()
DoCheckKey ==
    /\ constructed
    /\ \E resp \in Responses(KeyRoots) :
          ret' = Observed("checkKey", PyNone, CheckKey(Self, resp), resp, userHash)
    /\ UNCHANGED <<constructed, apiKey, userHash, loginLog>>
    /\ RecordUnchanged

\* client.login(username, password)
DoLogin ==
    /\ constructed
    /\ \E u \in UserNames, resp \in Responses(LoginRoots) :
          LET l == Login(Self, u, resp)
          IN  /\ userHash' = l.hash
              /\ ret' = Observed("login", PyStr(u), l.res, resp, userHash)
              /\ loginLog' =
                    IF l.res.outcome = "return"
                    THEN [last |-> "ok", token |-> resp.xml.text.v,
                          good |-> resp.xml.text.v]
                    ELSE [last |-> "failed", token |-> <<>>, good |-> loginLog.good]
    /\ UNCHANGED <<constructed, apiKey>>
    /\ RecordUnchanged

\* client.getSets(**kwargs)
DoGetSets ==
    /\ constructed
    /\ \E kw \in Kwargs, resp \in Responses(ListRoots(SetElements)) :
          ret' = Observed("getSets", PyStr(OrderByOf(kw)), GetSets(Self, kw, resp),
                          resp, userHash)
    /\ UNCHANGED <<constructed, apiKey, userHash, loginLog>>
    /\ RecordUnchanged

\* client.getSet(setID)
DoGetSet ==
    /\ constructed
    /\ \E id \in SetIDs, resp \in Responses(ListRoots(SetElements)) :
          ret' = Observed("getSet", id, GetSet(Self, id, resp), resp, userHash)
    /\ UNCHANGED <<constructed, apiKey, userHash, loginLog>>
    /\ RecordUnchanged

\* client.getRecentlyUpdatedSets(minutesAgo)
DoGetRecentlyUpdatedSets ==
    /\ constructed
    /\ \E m \in Minutes, resp \in Responses(ListRoots(SetElements)) :
          ret' = Observed("getRecentlyUpdatedSets", PyInt(m),
                          GetRecentlyUpdatedSets(Self, m, resp), resp, userHash)
    /\ UNCHANGED <<constructed, apiKey, userHash, loginLog>>
    /\ RecordUnchanged

\* client.getAdditionalImages(setID)
DoGetAdditionalImages ==
    /\ constructed
    /\ \E id \in SetIDs, resp \in Responses(ListRoots(UrlElements)) :
          ret' = Observed("getAdditionalImages", id, GetAdditionalImages(Self, id, resp),
                          resp, userHash)
    /\ UNCHANGED <<constructed, apiKey, userHash, loginLog>>
    /\ RecordUnchanged

\* client.getReviews(setID)
DoGetReviews ==
    /\ constructed
    /\ \E id \in SetIDs, resp \in Responses(ListRoots(ReviewElements)) :
          ret' = Observed("getReviews", id, GetReviews(Self, id, resp), resp, userHash)
    /\ UNCHANGED <<constructed, apiKey, userHash, loginLog>>
    /\ RecordUnchanged

\* client.getInstructions(setID)
DoGetInstructions ==
    /\ constructed
    /\ \E id \in SetIDs, resp \in Responses(ListRoots(UrlElements)) :
          ret' = Observed("getInstructions", id, GetInstructions(Self, id, resp),
                          resp, userHash)
    /\ UNCHANGED <<constructed, apiKey, userHash, loginLog>>
    /\ RecordUnchanged

-----------------------------------------------------------------------------
(* The record's operations (build.py 161-215)                               *)

\* self._client.getAdditionalImages / getReviews / getInstructions (self.setID)
ClientFetch(f, self, setID, resp) ==
    CASE f = "additionalImages" -> GetAdditionalImages(self, setID, resp)
      [] f = "reviews"          -> GetReviews(self, setID, resp)
      [] f = "instructions"     -> GetInstructions(self, setID, resp)

\* A getter that stores an empty list when the gateway call fails.
BuildGetCachingEmpty(f, self, obj, resp) ==
    LET res == ClientFetch(f, self, obj.attrs["setID"], resp)
    IN  [res   |-> res,
         cache |-> [obj.cache EXCEPT ![f] = IF res.outcome = "return" THEN res.val
                                            ELSE PyList(<<>>)]]

\* Build.getAdditionalImages / getReviews / getInstructions: the call's result
\* and the cache it leaves.
BuildGet(f, self, obj, resp) ==
    LET res == ClientFetch(f, self, obj.attrs["setID"], resp)
    IN  [res   |-> res,
         cache |-> IF res.outcome = "return" THEN [obj.cache EXCEPT ![f] = res.val]
                   ELSE obj.cache]

\* A test for a falsy value, `if not self._additionalImages`.
MustFetchFalsy(held) == IsNone(held) \/ held = PyList(<<>>)

\* A property that does not look at what it holds.
MustFetchAlways(held) == TRUE

\* Whether a read of the property calls the getter:
\* `if self._additionalImages is None`
MustFetch(held) == IsNone(held)

\* The properties additionalImages / reviews / instructions.
BuildRead(f, self, obj, resp) ==
    IF MustFetch(obj.cache[f])
    THEN LET got == BuildGet(f, self, obj, resp)
         IN  IF got.res.outcome = "raise" THEN got
             ELSE [res   |-> Return(got.cache[f], got.res.http),
                   cache |-> [got.cache EXCEPT ![f] = got.res.val]]
    ELSE [res |-> Return(obj.cache[f], NoRequest), cache |-> obj.cache]

\* The responses a record's fetch is given: an error, a malformed body, a list
\* of 0..MaxChildren well-formed children, and a list with a child that has
\* too few leaves.
GoodElement(f) ==
    IF f = "reviews" THEN ReviewElement(PyStr(<<"5">>), PyStr(<<"t", "r", "u", "e">>))
    ELSE <<Leaf("thumbnailURL", PyNone), Leaf("imageURL", Url)>>

FieldResponses(f) ==
    {Response(404, <<"E", ":", "g", "o", "n", "e">>, Malformed),
     Response(200, <<>>, Malformed),
     Response(200, <<>>, Root(PyNone, << <<>> >>))}
        \cup {Response(200, <<>>, Root(PyNone, [i \in 1..n |-> GoodElement(f)])) :
                 n \in 0..MaxChildren}

ThisBuild == [attrs |-> attrs, client |-> "client", cache |-> cache]

RecordObserved(op, f, res, resp) ==
    [Observed(op, attrs["setID"], res, resp, userHash)
        EXCEPT !.field = f, !.held = cache[f], !.retry = fetches[f].failed]

GatewayUnchanged == UNCHANGED <<constructed, apiKey, userHash, loginLog>>

\* Build(data, client), by the caller
CreateBuild(dataSet) ==
    /\ constructed
    /\ ~hasBuild
    /\ \E data \in dataSet :
          LET b == NewBuild(<<data, "client">>)
          IN  /\ b.outcome = "return"
              /\ hasBuild' = TRUE
              /\ attrs' = b.obj.attrs
              /\ cache' = b.obj.cache
              /\ ret' = [NoCall EXCEPT !.op = "Build", !.outcome = "return",
                                       !.arg = [t |-> "element", v |-> data]]
    /\ fetches' = NoFetches
    /\ GatewayUnchanged

\* build.getAdditionalImages(), build.getReviews(), build.getInstructions()
CallGet(f) ==
    /\ hasBuild
    /\ \E resp \in FieldResponses(f) :
          LET g == BuildGet(f, Self, ThisBuild, resp)
          IN  /\ cache' = g.cache
              /\ ret' = RecordObserved("get", f, g.res, resp)
              /\ fetches' = IF g.res.outcome = "return"
                             THEN [fetches EXCEPT ![f].failed = FALSE]
                             ELSE fetches
    /\ UNCHANGED <<hasBuild, attrs>>
    /\ GatewayUnchanged

\* build.additionalImages, build.reviews, build.instructions
ReadField(f) ==
    /\ hasBuild
    /\ \E resp \in (IF MustFetch(cache[f]) THEN FieldResponses(f)
                                            ELSE {NoResponse}) :
          LET r == BuildRead(f, Self, ThisBuild, resp)
          IN  /\ cache' = r.cache
              /\ ret' = RecordObserved("read", f, r.res, resp)
              /\ fetches' =
                    IF r.res.outcome = "raise"
                    THEN [fetches EXCEPT ![f].failed = TRUE]
                    ELSE IF r.res.http # NoRequest
                    THEN [fetches EXCEPT ![f] = [lazy |-> @.lazy + 1, failed |-> FALSE]]
                    ELSE fetches
    /\ UNCHANGED <<hasBuild, attrs>>
    /\ GatewayUnchanged

GetAdditionalImagesOfBuild == CallGet("additionalImages")

GetReviewsOfBuild == CallGet("reviews")

GetInstructionsOfBuild == CallGet("instructions")

ReadAdditionalImages == ReadField("additionalImages")

ReadReviews == ReadField("reviews")

ReadInstructions == ReadField("instructions")

\* The elements a caller builds a record from, in the record's specification.
RecordData ==
    { <<Leaf("setID", PyStr(<<"7">>)), Leaf("name", PyStr(<<"n">>))>> }

CreateRecord == CreateBuild(RecordData)

\* A gateway that was constructed, and no record yet.
RecordInit ==
    /\ constructed = TRUE
    /\ apiKey \in ApiKeys
    /\ userHash = <<>>
    /\ ret = NoCall
    /\ loginLog = NoLogin
    /\ hasBuild = FALSE
    /\ attrs = [n \in AttrNames |-> Unset]
    /\ cache = [f \in LazyFields |-> PyNone]
    /\ fetches = NoFetches

RecordNext ==
    \/ CreateRecord
    \/ GetAdditionalImagesOfBuild
    \/ GetReviewsOfBuild
    \/ GetInstructionsOfBuild
    \/ ReadAdditionalImages
    \/ ReadReviews
    \/ ReadInstructions

RecordSpec == RecordInit /\ [][RecordNext]_vars

-----------------------------------------------------------------------------
(* Decoding alone: records built from a wider set of elements               *)

\* The texts of a leaf: None for an empty element, or a string.
Texts ==
    {PyNone} \cup
    {PyStr(s) : s \in
        { <<"t", "r", "u", "e">>, <<"T", "R", "U", "E">>, <<"T", "r", "u", "e">>,
          <<"f", "a", "l", "s", "e">>, <<"F", "A", "L", "S", "E">>,
          <<"1">>, <<"0">>, <<"n", "o", "n", "e">>, <<"N", "o", "n", "e">>,
          <<"y", "e", "s">>, <<"Y", "e", "s">>, <<" ", "1">>, <<"t", "r", "u", "e", " ">>,
          <<"1", "2">>, <<"-", "3">>, <<"1", "_", "0">>, <<"4", ".", "5">>,
          <<"1", "e", "2">>, <<"n", "a", "n">>, <<"1", "2", "a">>, <<".">>,
          <<"2", "0", "1", "6", "-", "0", "2", "-", "2", "9", "T",
            "0", "1", "-", "0", "2", ":", "0", "3", ".", "5">>,
          <<"2", "0", "1", "6", "-", "0", "2", "-", "2", "9", "T",
            "0", "1", ":", "0", "2", ":", "0", "3", ".", "5">> }}

FlagTags == {"released", "owned", "wanted"}

DecodeTags ==
    FlagTags \cup {"setID", "numberVariant", "variant", "pieces", "minifigs",
                   "reviewCount", "instructionsCount", "additionalImageCount",
                   "ACMDataCount", "rating", "qtyOwned", "lastUpdated", "extra"}

DecodeLeaves == {Leaf(tag, text) : tag \in DecodeTags, text \in Texts}

\* No leaf, one leaf, or a flag's leaf followed by another leaf.
DecodeData ==
    {<<>>} \cup {<<l>> : l \in DecodeLeaves}
           \cup {<<fl, l>> : fl \in {Leaf(tag, PyStr(<<"1">>)) : tag \in FlagTags},
                            l \in DecodeLeaves}

DecodeRecord == CreateBuild(DecodeData)

DecodeNext == DecodeRecord

DecodeSpec == RecordInit /\ [][DecodeNext]_vars

Next ==
    \/ Construct
    \/ DoCheckKey
    \/ DoLogin
    \/ DoGetSets
    \/ DoGetSet
    \/ DoGetRecentlyUpdatedSets
    \/ DoGetAdditionalImages
    \/ DoGetReviews
    \/ DoGetInstructions

Spec == Init /\ [][Next]_vars

-----------------------------------------------------------------------------
(* The lazily fetched collections                                           *)

OnRecord == ret.field \in LazyFields

BadStatus(resp) == LeadingDigit(resp.status) \notin {2, 3}

\* C1: once a read of a lazy field has completed successfully the field stays
\* populated, and a read of a populated field returns the stored value, leaves
\* it stored and issues no gateway call, whatever the value is.
C1_CachedReadIssuesNoCall ==
    /\ \A f \in LazyFields : fetches[f].lazy >= 1 => ~IsNone(cache[f])
    /\ (OnRecord /\ ret.op = "read" /\ ~IsNone(ret.held)) =>
          /\ ret.outcome = "return"
          /\ ret.http = NoRequest
          /\ ret.val = ret.held
          /\ cache[ret.field] = ret.held

\* A read of a field whose first fetch, made by a read, returned an empty list.
C1_Witness ==
    /\ OnRecord /\ ret.op = "read"
    /\ ret.held = PyList(<<>>)
    /\ fetches[ret.field].lazy = 1
    /\ ret.http = NoRequest

\* C2 as stated: no operation on a collection that was already fetched issues
\* another gateway call for it.
C2_NoCallAfterFetch ==
    (OnRecord /\ ~IsNone(ret.held)) => ret.http = NoRequest

\* C2 as amended: reads of a property fetch its collection at most once; a
\* gateway call for a collection already fetched is issued only by the explicit
\* getter, which issues exactly one call each time it is called and, when the
\* call succeeds, replaces the stored value by the value it returns.
C2_OnlyGettersFetchAgain ==
    /\ \A f \in LazyFields : fetches[f].lazy <= 1
    /\ (OnRecord /\ ~IsNone(ret.held) /\ ret.http # NoRequest) => ret.op = "get"
    /\ (OnRecord /\ ret.op = "get") =>
          /\ Len(ret.http) = 1
          /\ ret.outcome = "return" => cache[ret.field] = ret.val

\* An explicit getter fetched a collection again, after a read had fetched it,
\* and stored a different value.
C2_Witness ==
    /\ OnRecord /\ ret.op = "get" /\ ret.outcome = "return"
    /\ ~IsNone(ret.held) /\ ret.val # ret.held
    /\ fetches[ret.field].lazy = 1
    /\ Len(ret.http) = 1

\* C3: a read of an unfetched field issues one gateway call; when the call
\* fails the error reaches the reader (the transport error with the server's
\* text when the status is bad), the field stays unfetched, and a read that
\* follows a failed read issues a gateway call again.
C3_FailedFetchIsNotCached ==
    /\ (OnRecord /\ ret.op = "read" /\ IsNone(ret.held)) => Len(ret.http) = 1
    /\ (OnRecord /\ ret.op = "read" /\ IsNone(ret.held) /\ BadStatus(ret.resp)) =>
          /\ ret.outcome = "raise"
          /\ ret.err = "InvalidRequest"
          /\ ret.msg = ErrorText(ret.resp.text)
    /\ (OnRecord /\ ret.op = "read" /\ ret.outcome = "raise") =>
          /\ IsNone(ret.held)
          /\ IsNone(cache[ret.field])
          /\ fetches[ret.field].failed
    /\ (OnRecord /\ ret.op = "read" /\ ret.retry) =>
          /\ IsNone(ret.held)
          /\ Len(ret.http) = 1
    /\ \A f \in LazyFields : fetches[f].failed => IsNone(cache[f])

\* A read that follows a failed read fetched the collection from the gateway.
C3_Witness ==
    /\ OnRecord /\ ret.op = "read" /\ ret.retry
    /\ ret.outcome = "return"
    /\ Len(ret.http) = 1
    /\ cache[ret.field] = ret.val

-----------------------------------------------------------------------------
(* The gateway                                                              *)

GatewayOps ==
    {"checkKey", "login", "getSets", "getSet", "getRecentlyUpdatedSets",
     "getAdditionalImages", "getReviews", "getInstructions"}

\* The call was given a response with a good status and a well-formed body.
Parsed == ret.resp # NoResponse /\ ~BadStatus(ret.resp) /\ ret.resp.xml # Malformed

Children == ret.resp.xml.children

\* C4 as stated: the token is the one the latest login returned if that login
\* succeeded, and is empty otherwise.
C4_TokenOfLatestLogin == userHash = loginLog.token

\* C4 as amended: the token is the one returned by the latest login that
\* succeeded, and is empty when none has succeeded (so after construction); a
\* login that fails leaves the token as it was, and one that succeeds stores
\* the token of its response.
C4_TokenOfLatestSuccessfulLogin ==
    /\ userHash = loginLog.good
    /\ loginLog.last = "none" => userHash = <<>>
    /\ (ret.op = "login" /\ ret.outcome = "raise") => userHash = ret.before
    /\ (ret.op = "login" /\ ret.outcome = "return") => userHash = ret.resp.xml.text.v

\* A login failed after an earlier one had succeeded, and the token is kept.
C4_Witness ==
    /\ ret.op = "login" /\ ret.outcome = "raise"
    /\ ret.before # <<>>
    /\ userHash = ret.before
    /\ loginLog.last = "failed"

\* The sort keys the documentation of getSets lists, in lower case.
OrderByFields ==
    { <<"n", "u", "m", "b", "e", "r">>, <<"y", "e", "a", "r", "f", "r", "o", "m">>,
      <<"p", "i", "e", "c", "e", "s">>, <<"m", "i", "n", "i", "f", "i", "g", "s">>,
      <<"r", "a", "t", "i", "n", "g">>,
      <<"u", "k", "r", "e", "t", "a", "i", "l", "p", "r", "i", "c", "e">>,
      <<"u", "s", "r", "e", "t", "a", "i", "l", "p", "r", "i", "c", "e">>,
      <<"c", "a", "r", "e", "t", "a", "i", "l", "p", "r", "i", "c", "e">>,
      <<"e", "u", "r", "e", "t", "a", "i", "l", "p", "r", "i", "c", "e">>,
      <<"t", "h", "e", "m", "e">>, <<"s", "u", "b", "t", "h", "e", "m", "e">>,
      <<"n", "a", "m", "e">>, <<"r", "a", "n", "d", "o", "m">> }

\* A listed field name, or one followed by DESC, in any case.
ValidOrderBy(key) ==
    LET k == Lower(key)
    IN  \/ k \in OrderByFields
        \/ /\ EndsWith(k, <<"d", "e", "s", "c">>)
           /\ TakeFirst(k, Len(k) - 4) \in OrderByFields

\* C5: a search whose sort key is not a listed one is rejected with an error
\* and sends no request.
C5_BadSortKeyIsRejected ==
    (ret.op = "getSets" /\ ~ValidOrderBy(ret.arg.v)) =>
        (ret.outcome = "raise" /\ ret.http = NoRequest)

\* C6: on a parsed response with n children, getSets and getRecentlyUpdatedSets
\* return the n records decoded from the children, in order, and getSet with
\* n >= 1 returns the record decoded from the first child.
C6_EveryChildIsDecoded ==
    /\ (ret.op \in {"getSets", "getRecentlyUpdatedSets"} /\ Parsed) =>
          /\ ret.outcome = "return"
          /\ Len(ret.val.v) = Len(Children)
          /\ \A i \in 1..Len(Children) :
                ret.val.v[i] = Build__init__(Children[i], "client")
    /\ (ret.op = "getSet" /\ Parsed /\ Len(Children) >= 1) =>
          /\ ret.outcome = "return"
          /\ ret.val = Build__init__(Children[1], "client")

\* C7: on a parsed response with no child, getSet raises InvalidSetID and the
\* five calls that return a list return an empty list; no other operation
\* raises InvalidSetID.
C7_NotFoundOnlyFromGetSet ==
    /\ (ret.op = "getSet" /\ Parsed /\ Len(Children) = 0) =>
          (ret.outcome = "raise" /\ ret.err = "InvalidSetID")
    /\ (/\ ret.op \in {"getSets", "getRecentlyUpdatedSets", "getAdditionalImages",
                        "getReviews", "getInstructions"}
        /\ Parsed /\ Len(Children) = 0) =>
          (ret.outcome = "return" /\ ret.val = PyList(<<>>))
    /\ ret.err = "InvalidSetID" => ret.op = "getSet"

\* getSet was answered with no child and raised InvalidSetID.
C7_Witness ==
    /\ ret.op = "getSet" /\ Parsed /\ Len(Children) = 0
    /\ ret.outcome = "raise" /\ ret.err = "InvalidSetID"

\* The message is the part of the body that follows its first two characters,
\* up to the first backslash-r separator.
CarriesServerText(msg, text) ==
    LET rest == DropFirst(text, 2 + Len(msg))
    IN  /\ TakeFirst(DropFirst(text, 2), Len(msg)) = msg
        /\ rest = <<>> \/ StartsWith(rest, <<"\\", "r">>)
        /\ SplitFirst(msg, <<"\\", "r">>) = msg

\* C8: every operation of the gateway sends exactly one request, to its own
\* endpoint; when the status of the response starts with neither 2 nor 3 it
\* raises InvalidRequest with the server's text, whatever the body is, returns
\* nothing and leaves the token as it was.
C8_OneRequestAndTransportError ==
    ret.op \in GatewayOps =>
        /\ Len(ret.http) = 1
        /\ ret.http[1].endpoint = ret.op
        /\ BadStatus(ret.resp) =>
              /\ ret.outcome = "raise"
              /\ ret.err = "InvalidRequest"
              /\ CarriesServerText(ret.msg, ret.resp.text)
              /\ ret.val = PyNone
              /\ userHash = ret.before

\* A login after a successful one was answered with a bad status.
C8_Witness ==
    /\ ret.op = "login" /\ BadStatus(ret.resp)
    /\ ret.err = "InvalidRequest"
    /\ ret.msg = <<"4", "0", "4">>
    /\ ret.before # <<>> /\ userHash = ret.before

\* C9: constructing a gateway sends the validate-key request and nothing else;
\* when the answer is not OK it raises the invalid-key error that errors.py
\* defines, InvalidApiKey, and no gateway exists.
C9_BadKeyRaisesInvalidKey ==
    ret.op = "Client" =>
        /\ Len(ret.http) = 1
        /\ ret.http[1].endpoint = "checkKey"
        /\ (Parsed /\ ret.resp.xml.text # PyStr(<<"O", "K">>)) =>
              /\ ret.outcome = "raise"
              /\ ret.err = "InvalidApiKey"
              /\ ~constructed
        /\ constructed => (Parsed /\ ret.resp.xml.text = PyStr(<<"O", "K">>))

-----------------------------------------------------------------------------
(* Decoding                                                                 *)

\* The text of the last leaf of the element that carries the tag, if any.
HasLeaf(data, tag) == \E i \in 1..Len(data) : data[i].tag = tag

LastText(data, tag) ==
    data[CHOOSE i \in 1..Len(data) :
            /\ data[i].tag = tag
            /\ \A j \in 1..Len(data) : data[j].tag = tag => j <= i].text

Decoded == hasBuild /\ ret.op = "Build"

\* The flags of the decoded record that were given a string.
GivenFlags == {tag \in FlagTags : HasLeaf(ret.arg.v, tag) /\ IsStr(LastText(ret.arg.v, tag))}

TrueTokens == { <<"t", "r", "u", "e">>, <<"1">> }

FalseTokens == { <<"f", "a", "l", "s", "e">>, <<"0">> }

-----------------------------------------------------------------------------
(* Numeric fields                                                           *)

\* The fields of a record documented as int or float (build.py 9-42), with
\* the type the documentation gives them.
NumericFields ==
    [setID |-> "int", variant |-> "int", pieces |-> "int", minifigs |-> "int",
     reviewCount |-> "int", instructionsCount |-> "int",
     additionalImageCount |-> "int", ACMDataCount |-> "int",
     quantityOwned |-> "int", rating |-> "float"]

\* The tag of the response that fills the field.
XmlOf(field) ==
    LET i == CHOOSE j \in 1..Len(ApplicableTags) : ApplicableTags[j].attr = field
    IN  ApplicableTags[i].xml

\* The element gives the field: it has a leaf of the field's tag.
Given(field) == HasLeaf(ret.arg.v, XmlOf(field))

\* The text is a valid number of the type: int() or float() accepts it.
ValidNumber(type, text) ==
    IF type = "int" THEN IntOf(text).ok ELSE FloatOf(text).ok

\* C11: after decoding any sequence of leaves, every field documented as int
\* or float holds a value of its numeric type or None; a field the input does
\* not give, or gives with a text that is not a valid number, holds None; and
\* decoding never raises.
C11_NumericOrNone ==
    Decoded =>
        /\ ret.outcome = "return"
        /\ \A field \in DOMAIN NumericFields :
              LET type == NumericFields[field]
              IN  /\ attrs[field].t \in {type, "None"}
                  /\ ~Given(field) => IsNone(attrs[field])
                  /\ (Given(field)
                        /\ ~ValidNumber(type, LastText(ret.arg.v, XmlOf(field))))
                     => IsNone(attrs[field])

====
